---- MODULE Spec2Model ----
(***************************************************************************)
(* cxx::stack<K, V> of src/Fancy_Stack/stack.h: a copy-on-write stack of   *)
(* (key, value) entries.  A handle (stack) owns a shared_ptr to a          *)
(* stack_data, which holds three cross-referenced indices.                 *)
(*                                                                         *)
(* References inside a representation are modelled by node identities:     *)
(*   - a node of a list<V> bucket is [id, val], id naming it within its    *)
(*     bucket;                                                             *)
(*   - a node of `elements` is [id, first, second], first being the key of *)
(*     the map node the element_by_key_iterator designates and second the  *)
(*     id of the value node the element_iterator designates;               *)
(*   - key_to_list_map maps a key (its comparator orders the map iterators *)
(*     by a->first) to the ids of nodes of `elements`.                     *)
(***************************************************************************)
EXTENDS Integers, Sequences, FiniteSets, TLC

\* ------------------------------------------------------------------ bounds
NumHandles == 2
MaxSize == 2

Handles == 1..NumHandles
RepIds == 1..(NumHandles + 1)
Keys == {1, 2}
Values == {1, 2}
Null == 0

VARIABLES
    alive,          \* alive[h]: the stack object h exists
    data_wrapper,   \* data_wrapper[h]: id of the stack_data h points to, or Null
    bIsShareable,   \* bIsShareable[h]: the handle's flag
    heap            \* the stack_data objects that exist, by id

vars == <<alive, data_wrapper, bIsShareable, heap>>

\* ------------------------------------------------------- container helpers
Last(s) == s[Len(s)]

PopBack(s) == SubSeq(s, 1, Len(s) - 1)

\* std::map::insert / operator[]: adds key with a default value when absent
MapInsert(m, key, dflt) ==
    IF key \in DOMAIN m THEN m
    ELSE [x \in DOMAIN m \cup {key} |-> IF x = key THEN dflt ELSE m[x]]

\* std::map::erase
MapErase(m, key) == [x \in DOMAIN m \ {key} |-> m[x]]

\* std::list::erase(iterator): removes the node the iterator designates
ListErase(l, id) == SelectSeq(l, LAMBDA n : n.id # id)

\* the identity of a newly allocated node: the least one not in use
FreshId(used) ==
    CHOOSE n \in 1..(Cardinality(used) + 1) :
        n \notin used /\ \A m \in 1..(n - 1) : m \in used

\* the identities of the nodes of one list
NodeIds(l) == {l[i].id : i \in 1..Len(l)}

\* *value_iter: the value of the node `vid` of the bucket of `key`
Deref(rep, key, vid) ==
    LET b == rep.elements_by_key[key]
    IN  b[CHOOSE i \in 1..Len(b) : b[i].id = vid].val

\* ------------------------------------------------------------- stack_data
EmptyMap == [x \in {} |-> <<>>]

stack_data_default ==
    [elements_by_key |-> EmptyMap, elements |-> <<>>, key_to_list_map |-> EmptyMap]

RECURSIVE CopyLoop(_, _, _)
CopyLoop(other, i, acc) ==
    IF i > Len(other.elements) THEN acc
    ELSE
        LET iter == other.elements[i]
            key == iter.first
            vid == FreshId(IF key \in DOMAIN acc.elements_by_key
                           THEN NodeIds(acc.elements_by_key[key]) ELSE {})
            ebk == [MapInsert(acc.elements_by_key, key, <<>>) EXCEPT
                        ![key] = Append(@, [id |-> vid,
                                            val |-> Deref(other, key, iter.second)])]
            eid == FreshId(NodeIds(acc.elements))
            els == Append(acc.elements, [id |-> eid, first |-> key, second |-> vid])
            ktl == [MapInsert(acc.key_to_list_map, key, <<>>) EXCEPT
                        ![key] = Append(@, eid)]
        IN  CopyLoop(other, i + 1,
                     [elements_by_key |-> ebk, elements |-> els, key_to_list_map |-> ktl])

stack_data_copy(other) == CopyLoop(other, 1, stack_data_default)

\* ------------------------------------------------------------- shared_ptr
World == [data_wrapper |-> data_wrapper, bIsShareable |-> bIsShareable, heap |-> heap]

\* shared_ptr::use_count over the handles
use_count(w, r) == Cardinality({x \in Handles : w.data_wrapper[x] = r})

\* make_shared: the new object gets the least id not in use
FreshRep(hp) == CHOOSE r \in RepIds : r \notin DOMAIN hp /\ \A q \in 1..(r - 1) : q \in DOMAIN hp

make_shared(hp, rep) ==
    [x \in DOMAIN hp \cup {FreshRep(hp)} |-> IF x = FreshRep(hp) THEN rep ELSE hp[x]]

\* a stack_data is destroyed when its last owner lets go of it
Release(w) ==
    [w EXCEPT !.heap = [x \in {r \in DOMAIN w.heap :
                                  \E h \in Handles : w.data_wrapper[h] = r} |-> w.heap[x]]]

Rep(w, h) == w.heap[w.data_wrapper[h]]

SetRep(w, h, rep) == [w EXCEPT !.heap[w.data_wrapper[h]] = rep]

\* ------------------------------------------------------------ the guards
\* Where an operation can fail with std::bad_alloc: in the constructor of the
\* modify_guard ("guard": the injected throw; "clone": make_shared of the
\* copy), of a map_access_guard ("map1", "map2") or of a push_back_guard
\* ("pb1", "pb2", "pb3"), numbered in the order push constructs them.
PushFailPoints == {"guard", "clone", "map1", "pb1", "pb2", "map2", "pb3"}
GuardFailPoints == {"guard", "clone"}

Result(w, res) == [w |-> w, res |-> res]

\* NeedsClone with a slip: the guard's own reference is counted twice
NeedsClone_off_by_one(w, h) == use_count(w, w.data_wrapper[h]) + 1 > 3 /\ w.bIsShareable[h]

\* the condition of the copy in modify_guard's constructor; the guard's own
\* copy of the shared_ptr counts as one use
NeedsClone(w, h) == use_count(w, w.data_wrapper[h]) + 1 > 2 /\ w.bIsShareable[h]

\* the failures a call on h can meet in the world w ("none": no failure)
GuardFails(w, h) == {"none", "guard"} \cup (IF NeedsClone(w, h) THEN {"clone"} ELSE {})
PushFails(w, h) == GuardFails(w, h) \cup {"map1", "pb1", "pb2", "map2", "pb3"}

\* modify_guard::modify_guard, when it does not throw
modify_guard(w, h, bIsStillShareable) ==
    LET w1 == IF NeedsClone(w, h)
              THEN [w EXCEPT !.heap = make_shared(w.heap, stack_data_copy(Rep(w, h))),
                             !.data_wrapper[h] = FreshRep(w.heap)]
              ELSE w
    IN  [w1 EXCEPT !.bIsShareable[h] = IF bIsStillShareable THEN TRUE ELSE FALSE]

\* modify_guard_rollback with a slip: the flag is not put back
modify_guard_rollback_keeps_flag(w0, w1, h) ==
    Release([w1 EXCEPT !.data_wrapper[h] = w0.data_wrapper[h]])

\* modify_guard::~modify_guard with rollback set: w0 is the state the
\* constructor saved, w1 the state at the throw
modify_guard_rollback(w0, w1, h) ==
    Release([w1 EXCEPT !.bIsShareable[h] = w0.bIsShareable[h],
                       !.data_wrapper[h] = w0.data_wrapper[h]])

\* modify_guard::~modify_guard after drop_rollback: only its shared_ptr goes
modify_guard_commit(w1) == Release(w1)

\* map_access_guard_dtor with a slip: the bucket is erased whether or not
\* this guard inserted it
map_access_guard_dtor_erases_always(map, key, rollback) ==
    MapErase(map, key)

\* map_access_guard::~map_access_guard
map_access_guard_dtor(map, key, rollback) ==
    IF rollback THEN MapErase(map, key) ELSE map

\* push_back_guard::~push_back_guard
push_back_guard_dtor(container, rollback) ==
    IF rollback THEN PopBack(container) ELSE container

\* ------------------------------------------------------------------- push
\* The destructors of the n sub-guards push has constructed, last first.
\* inserted1, inserted2: the rollback flags of the two map_access_guards.
RECURSIVE PushUnwind(_, _, _, _, _)
PushUnwind(rep, key, n, inserted1, inserted2) ==
    IF n = 0 THEN rep
    ELSE
        LET undone ==
                CASE n = 4 -> [rep EXCEPT !.key_to_list_map =
                                   map_access_guard_dtor(@, key, inserted2)]
                  [] n = 3 -> [rep EXCEPT !.elements = push_back_guard_dtor(@, TRUE)]
                  [] n = 2 -> [rep EXCEPT !.elements_by_key[key] =
                                   push_back_guard_dtor(@, TRUE)]
                  [] n = 1 -> [rep EXCEPT !.elements_by_key =
                                   map_access_guard_dtor(@, key, inserted1)]
        IN  PushUnwind(undone, key, n - 1, inserted1, inserted2)

push(w, h, key, value, f) ==
    IF f \in GuardFailPoints THEN Result(w, "bad_alloc")
    ELSE
        LET w1 == modify_guard(w, h, TRUE)
            r0 == Rep(w1, h)
            inserted1 == key \notin DOMAIN r0.elements_by_key
            r1 == [r0 EXCEPT !.elements_by_key = MapInsert(@, key, <<>>)]
            vid == FreshId(NodeIds(r1.elements_by_key[key]))
            r2 == [r1 EXCEPT !.elements_by_key[key] =
                       Append(@, [id |-> vid, val |-> value])]
            eid == FreshId(NodeIds(r2.elements))
            r3 == [r2 EXCEPT !.elements =
                       Append(@, [id |-> eid, first |-> key, second |-> vid])]
            inserted2 == key \notin DOMAIN r3.key_to_list_map
            r4 == [r3 EXCEPT !.key_to_list_map = MapInsert(@, key, <<>>)]
            r5 == [r4 EXCEPT !.key_to_list_map[key] = Append(@, eid)]
            thrown(rep, n) ==
                Result(modify_guard_rollback(w,
                           SetRep(w1, h, PushUnwind(rep, key, n, inserted1, inserted2)), h),
                       "bad_alloc")
        IN  CASE f = "map1" -> thrown(r0, 0)
              [] f = "pb1" -> thrown(r1, 1)
              [] f = "pb2" -> thrown(r2, 2)
              [] f = "map2" -> thrown(r3, 3)
              [] f = "pb3" -> thrown(r4, 4)
              [] OTHER -> Result(modify_guard_commit(SetRep(w1, h, r5)), "ok")

\* -------------------------------------------------------------- observers
\* stack::size
size(w, h) == Len(Rep(w, h).elements)

\* stack::count
count(w, h, key) ==
    IF key \notin DOMAIN Rep(w, h).elements_by_key THEN 0
    ELSE Len(Rep(w, h).elements_by_key[key])

\* stack::front() const, on a non-empty stack: the pair (key, value)
front_const(w, h) ==
    LET back == Last(Rep(w, h).elements)
    IN  <<back.first, Deref(Rep(w, h), back.first, back.second)>>

\* stack::front() const: how it ends
front_const_res(w, h) == IF size(w, h) = 0 THEN "empty" ELSE "ok"

\* the keys of a std::map in the order its iterator visits them
RECURSIVE KeysInOrder(_)
KeysInOrder(S) ==
    IF S = {} THEN <<>>
    ELSE LET least == CHOOSE x \in S : \A y \in S : x <= y
         IN  <<least>> \o KeysInOrder(S \ {least})

\* the keys const_iterator yields from cbegin() to cend()
cbegin_cend(w, h) == KeysInOrder(DOMAIN Rep(w, h).elements_by_key)

\* -------------------------------------------------------------------- pop
\* pop_steps with a slip: the value is not erased from its bucket
pop_steps_keeps_value(rep) ==
    LET map_iter == Last(rep.elements).first
        ktl0 == MapInsert(rep.key_to_list_map, map_iter, <<>>)
        ktl1 == [ktl0 EXCEPT ![map_iter] = PopBack(@)]
        ktl2 == IF ktl1[map_iter] = <<>> THEN MapErase(ktl1, map_iter) ELSE ktl1
    IN  [elements_by_key |-> rep.elements_by_key,
         elements |-> PopBack(rep.elements),
         key_to_list_map |-> ktl2]

\* stack::pop(): the steps after the modify_guard, on the representation
pop_steps(rep) ==
    LET elements_last_item == Last(rep.elements)
        map_iter == elements_last_item.first
        value_iter == elements_last_item.second
        key == map_iter
        ktl0 == MapInsert(rep.key_to_list_map, map_iter, <<>>)
        ktl1 == [ktl0 EXCEPT ![map_iter] = PopBack(@)]
        ktl2 == IF ktl1[map_iter] = <<>> THEN MapErase(ktl1, map_iter) ELSE ktl1
        ebk0 == MapInsert(rep.elements_by_key, key, <<>>)
        ebk1 == [ebk0 EXCEPT ![key] = ListErase(@, value_iter)]
        ebk2 == IF ebk1[key] = <<>> THEN MapErase(ebk1, key) ELSE ebk1
    IN  [elements_by_key |-> ebk2,
         elements |-> PopBack(rep.elements),
         key_to_list_map |-> ktl2]

\* pop with a slip: the emptiness test is off by one
pop_off_by_one(w, h, f) ==
    IF Len(Rep(w, h).elements) <= 1 THEN Result(w, "empty")
    ELSE IF f \in GuardFailPoints THEN Result(w, "bad_alloc")
    ELSE
        LET w1 == modify_guard(w, h, TRUE)
        IN  Result(modify_guard_commit(SetRep(w1, h, pop_steps(Rep(w1, h)))), "ok")

pop(w, h, f) ==
    IF Rep(w, h).elements = <<>> THEN Result(w, "empty")
    ELSE IF f \in GuardFailPoints THEN Result(w, "bad_alloc")
    ELSE
        LET w1 == modify_guard(w, h, TRUE)
        IN  Result(modify_guard_commit(SetRep(w1, h, pop_steps(Rep(w1, h)))), "ok")

\* the test `data_wrapper->elements_by_key[key].empty()` of pop(K const&) and
\* of both front(K const&): operator[] adds the key when it is absent
KeyTest(w, h, key) ==
    LET w1 == SetRep(w, h, [Rep(w, h) EXCEPT !.elements_by_key = MapInsert(@, key, <<>>)])
    IN  [w |-> w1, empty |-> Rep(w1, h).elements_by_key[key] = <<>>]

\* pop_key_steps with a slip: the oldest entry of the key is removed, not
\* the newest
pop_key_steps_oldest(rep, key) ==
    LET map_iter == key
        ktl0 == MapInsert(rep.key_to_list_map, map_iter, <<>>)
        pop_iter == Head(ktl0[map_iter])
        els == ListErase(rep.elements, pop_iter)
        ktl1 == [ktl0 EXCEPT ![map_iter] = Tail(@)]
        ktl2 == IF ktl1[map_iter] = <<>> THEN MapErase(ktl1, map_iter) ELSE ktl1
        ebk0 == MapInsert(rep.elements_by_key, key, <<>>)
        ebk1 == [ebk0 EXCEPT ![key] = Tail(@)]
        ebk2 == IF ebk1[key] = <<>> THEN MapErase(ebk1, key) ELSE ebk1
    IN  [elements_by_key |-> ebk2, elements |-> els, key_to_list_map |-> ktl2]

\* stack::pop(K const&): the steps after the modify_guard
pop_key_steps(rep, key) ==
    LET map_iter == key
        ktl0 == MapInsert(rep.key_to_list_map, map_iter, <<>>)
        pop_iter == Last(ktl0[map_iter])
        els == ListErase(rep.elements, pop_iter)
        ktl1 == [ktl0 EXCEPT ![map_iter] = PopBack(@)]
        ktl2 == IF ktl1[map_iter] = <<>> THEN MapErase(ktl1, map_iter) ELSE ktl1
        ebk0 == MapInsert(rep.elements_by_key, key, <<>>)
        ebk1 == [ebk0 EXCEPT ![key] = PopBack(@)]
        ebk2 == IF ebk1[key] = <<>> THEN MapErase(ebk1, key) ELSE ebk1
    IN  [elements_by_key |-> ebk2, elements |-> els, key_to_list_map |-> ktl2]

pop_key(w, h, key, f) ==
    LET t == KeyTest(w, h, key)
    IN  IF t.empty THEN Result(t.w, "no_key")
        ELSE IF f \in GuardFailPoints THEN Result(t.w, "bad_alloc")
        ELSE
            LET w1 == modify_guard(t.w, h, TRUE)
            IN  Result(modify_guard_commit(SetRep(w1, h, pop_key_steps(Rep(w1, h), key))),
                       "ok")

\* ------------------------------------------------------------------ clear
\* clear with a slip: key_to_list_map is not cleared
clear_keeps_positions(w, h, f) ==
    IF f \in GuardFailPoints THEN Result(w, "bad_alloc")
    ELSE
        LET w1 == modify_guard(w, h, TRUE)
            kept == [stack_data_default EXCEPT
                         !.key_to_list_map = Rep(w1, h).key_to_list_map]
        IN  Result(modify_guard_commit(SetRep(w1, h, kept)), "ok")

\* stack::clear
clear(w, h, f) ==
    IF f \in GuardFailPoints THEN Result(w, "bad_alloc")
    ELSE
        LET w1 == modify_guard(w, h, TRUE)
        IN  Result(modify_guard_commit(SetRep(w1, h, stack_data_default)), "ok")

\* ------------------------------------------------------------------ front
NoWrite == 0

\* a write of `value` through a V& to the last node of the bucket of `key`
WriteBack(rep, key, value) ==
    IF value = NoWrite THEN rep
    ELSE [rep EXCEPT !.elements_by_key[key][Len(rep.elements_by_key[key])].val = value]

\* a write of `value` through a V& to the node `vid` of the bucket of `key`
WriteNode(rep, key, vid, value) ==
    IF value = NoWrite THEN rep
    ELSE [rep EXCEPT !.elements_by_key[key] =
              [i \in 1..Len(@) |-> IF @[i].id = vid THEN [@[i] EXCEPT !.val = value]
                                   ELSE @[i]]]

\* stack::front(), followed when value # NoWrite by a write of value through
\* the V& of the pair it returned
front(w, h, value, f) ==
    IF size(w, h) = 0 THEN Result(w, "empty")
    ELSE IF f \in GuardFailPoints THEN Result(w, "bad_alloc")
    ELSE
        LET w1 == modify_guard(w, h, FALSE)
            back == Last(Rep(w1, h).elements)
        IN  Result(modify_guard_commit(
                       SetRep(w1, h, WriteNode(Rep(w1, h), back.first, back.second, value))),
                   "ok")

\* stack::front(K const&), followed when value # NoWrite by a write of value
\* through the V& it returned
front_key(w, h, key, value, f) ==
    LET t == KeyTest(w, h, key)
    IN  IF t.empty THEN Result(t.w, "no_key")
        ELSE IF f \in GuardFailPoints THEN Result(t.w, "bad_alloc")
        ELSE
            LET w1 == modify_guard(t.w, h, FALSE)
            IN  Result(modify_guard_commit(
                           SetRep(w1, h, WriteBack(Rep(w1, h), key, value))),
                       "ok")

\* stack::front(K const&) const: the state it leaves and how it ends
front_key_const(w, h, key) ==
    LET t == KeyTest(w, h, key)
    IN  IF t.empty THEN Result(t.w, "no_key") ELSE Result(t.w, "ok")

\* the value stack::front(K const&) [const] returns when it succeeds
front_key_value(w, h, key) == Last(Rep(w, h).elements_by_key[key]).val

\* ----------------------------------------------- construction, assignment
\* stack::stack(): h becomes an empty stack
stack_default(w, h) ==
    [w EXCEPT !.heap = make_shared(w.heap, stack_data_default),
              !.data_wrapper[h] = FreshRep(w.heap),
              !.bIsShareable[h] = TRUE]

\* stack_copy with a slip: the flag of the source is copied
stack_copy_keeps_flag(w, h, other) ==
    IF w.bIsShareable[other]
    THEN [w EXCEPT !.data_wrapper[h] = w.data_wrapper[other],
                   !.bIsShareable[h] = w.bIsShareable[other]]
    ELSE [w EXCEPT !.heap = make_shared(w.heap, stack_data_copy(Rep(w, other))),
                   !.data_wrapper[h] = FreshRep(w.heap),
                   !.bIsShareable[h] = w.bIsShareable[other]]

\* stack::stack(stack const&): h is constructed from other
stack_copy(w, h, other) ==
    IF w.bIsShareable[other]
    THEN [w EXCEPT !.data_wrapper[h] = w.data_wrapper[other],
                   !.bIsShareable[h] = TRUE]
    ELSE [w EXCEPT !.heap = make_shared(w.heap, stack_data_copy(Rep(w, other))),
                   !.data_wrapper[h] = FreshRep(w.heap),
                   !.bIsShareable[h] = TRUE]

\* stack::stack(stack&&): h is constructed from other, whose pointer is moved
stack_move(w, h, other) ==
    [w EXCEPT !.data_wrapper[h] = w.data_wrapper[other],
              !.data_wrapper[other] = Null,
              !.bIsShareable[h] = TRUE]

\* stack::operator=(stack other), called as h = src: the parameter is a
\* copy of src (a stack of its own, which is never `this`), and is destroyed
\* on return
operator_assign(w, h, src) ==
    LET other == IF w.bIsShareable[src]
                 THEN [heap |-> w.heap, data_wrapper |-> w.data_wrapper[src],
                       bIsShareable |-> TRUE]
                 ELSE [heap |-> make_shared(w.heap, stack_data_copy(Rep(w, src))),
                       data_wrapper |-> FreshRep(w.heap),
                       bIsShareable |-> TRUE]
    IN  IF other.bIsShareable
        THEN Release([w EXCEPT !.heap = other.heap,
                               !.data_wrapper[h] = other.data_wrapper])
        ELSE Release([w EXCEPT !.heap = make_shared(other.heap,
                                            stack_data_copy(other.heap[other.data_wrapper])),
                               !.data_wrapper[h] = FreshRep(other.heap)])

\* stack::~stack()
stack_dtor(w, h) ==
    Release([w EXCEPT !.data_wrapper[h] = Null, !.bIsShareable[h] = TRUE])

\* ------------------------------------------------- addresses up to renaming
\* The address of a stack_data and of a node of `elements` is observable only
\* through the pointers and iterators that hold it, so a state is kept up to
\* a renaming of them: the stack_data objects are numbered in the order of
\* the handles that own them, the nodes of `elements` by their position.
\* An iterator that designates no node becomes 0, which names no node.
ElementPos(els, id) ==
    IF \E i \in 1..Len(els) : els[i].id = id
    THEN CHOOSE i \in 1..Len(els) : els[i].id = id
    ELSE 0

RenumberRep(rep) ==
    [elements_by_key |-> rep.elements_by_key,
     elements |-> [i \in 1..Len(rep.elements) |-> [rep.elements[i] EXCEPT !.id = i]],
     key_to_list_map |->
         [k \in DOMAIN rep.key_to_list_map |->
             [i \in 1..Len(rep.key_to_list_map[k]) |->
                 ElementPos(rep.elements, rep.key_to_list_map[k][i])]]]

\* the stack_data objects in the order of the handles that own them
RECURSIVE OwnedInOrder(_, _, _)
OwnedInOrder(dw, h, acc) ==
    IF h > NumHandles THEN acc
    ELSE IF dw[h] = Null \/ \E i \in 1..Len(acc) : acc[i] = dw[h]
         THEN OwnedInOrder(dw, h + 1, acc)
         ELSE OwnedInOrder(dw, h + 1, Append(acc, dw[h]))

Renumber(w) ==
    LET order == OwnedInOrder(w.data_wrapper, 1, <<>>)
    IN  [data_wrapper |-> [h \in Handles |->
                              IF w.data_wrapper[h] = Null THEN Null
                              ELSE CHOOSE n \in 1..Len(order) :
                                       order[n] = w.data_wrapper[h]],
         bIsShareable |-> w.bIsShareable,
         heap |-> [n \in 1..Len(order) |-> RenumberRep(w.heap[order[n]])]]

\* --------------------------------------------------------------- actions
\* h is a stack that exists and has not been moved from
Usable(h) == alive[h] /\ data_wrapper[h] # Null

Apply(w0) ==
    LET w == Renumber(w0)
    IN  /\ data_wrapper' = w.data_wrapper
        /\ bIsShareable' = w.bIsShareable
        /\ heap' = w.heap

Init ==
    /\ alive = [h \in Handles |-> h = 1]
    /\ data_wrapper = [h \in Handles |-> IF h = 1 THEN 1 ELSE Null]
    /\ bIsShareable = [h \in Handles |-> TRUE]
    /\ heap = <<stack_data_default>>

Push(h, key, value, f) ==
    /\ Usable(h)
    /\ size(World, h) < MaxSize
    /\ f \in PushFails(World, h)
    /\ Apply(push(World, h, key, value, f).w)
    /\ UNCHANGED alive

Pop(h, f) ==
    /\ Usable(h)
    /\ f \in GuardFails(World, h)
    /\ Apply(pop(World, h, f).w)
    /\ UNCHANGED alive

PopKey(h, key, f) ==
    /\ Usable(h)
    /\ f \in GuardFails(World, h)
    /\ Apply(pop_key(World, h, key, f).w)
    /\ UNCHANGED alive

Clear(h, f) ==
    /\ Usable(h)
    /\ f \in GuardFails(World, h)
    /\ Apply(clear(World, h, f).w)
    /\ UNCHANGED alive

Front(h, value, f) ==
    /\ Usable(h)
    /\ f \in GuardFails(World, h)
    /\ Apply(front(World, h, value, f).w)
    /\ UNCHANGED alive

FrontKey(h, key, value, f) ==
    /\ Usable(h)
    /\ f \in GuardFails(World, h)
    /\ Apply(front_key(World, h, key, value, f).w)
    /\ UNCHANGED alive

FrontKeyConst(h, key) ==
    /\ Usable(h)
    /\ Apply(front_key_const(World, h, key).w)
    /\ UNCHANGED alive

\* size(), count(key), front() const and a walk from cbegin() to cend():
\* none of them has an assignment
Observe(h) ==
    /\ Usable(h)
    /\ UNCHANGED vars

Construct(h) ==
    /\ ~alive[h]
    /\ alive' = [alive EXCEPT ![h] = TRUE]
    /\ Apply(stack_default(World, h))

CopyConstruct(h, other) ==
    /\ ~alive[h]
    /\ Usable(other)
    /\ alive' = [alive EXCEPT ![h] = TRUE]
    /\ Apply(stack_copy(World, h, other))

MoveConstruct(h, other) ==
    /\ ~alive[h]
    /\ Usable(other)
    /\ alive' = [alive EXCEPT ![h] = TRUE]
    /\ Apply(stack_move(World, h, other))

Assign(h, src) ==
    /\ alive[h]
    /\ Usable(src)
    /\ Apply(operator_assign(World, h, src))
    /\ UNCHANGED alive

Destroy(h) ==
    /\ alive[h]
    /\ alive' = [alive EXCEPT ![h] = FALSE]
    /\ Apply(stack_dtor(World, h))

Next ==
    \/ \E h \in Handles, k \in Keys, v \in Values, f \in PushFailPoints \cup {"none"} :
         Push(h, k, v, f)
    \/ \E h \in Handles, f \in GuardFailPoints \cup {"none"} : Pop(h, f)
    \/ \E h \in Handles, k \in Keys, f \in GuardFailPoints \cup {"none"} : PopKey(h, k, f)
    \/ \E h \in Handles, f \in GuardFailPoints \cup {"none"} : Clear(h, f)
    \/ \E h \in Handles, v \in Values \cup {NoWrite}, f \in GuardFailPoints \cup {"none"} :
         Front(h, v, f)
    \/ \E h \in Handles, k \in Keys, v \in Values \cup {NoWrite},
          f \in GuardFailPoints \cup {"none"} : FrontKey(h, k, v, f)
    \/ \E h \in Handles, k \in Keys : FrontKeyConst(h, k)
    \/ \E h \in Handles : Observe(h)
    \/ \E h \in Handles : Construct(h)
    \/ \E h, other \in Handles : CopyConstruct(h, other)
    \/ \E h, other \in Handles : MoveConstruct(h, other)
    \/ \E h, src \in Handles : Assign(h, src)
    \/ \E h \in Handles : Destroy(h)

Spec == Init /\ [][Next]_vars

\* ============================================================ observations
\* What a caller can observe of the stack h in the world w.

\* the entries of h from the bottom to the top, as (key, value) pairs
EntrySeq(w, h) ==
    [i \in 1..size(w, h) |->
        <<Rep(w, h).elements[i].first,
          Deref(Rep(w, h), Rep(w, h).elements[i].first, Rep(w, h).elements[i].second)>>]

Counts(w, h) == [k \in Keys |-> count(w, h, k)]

Top(w, h) == IF size(w, h) = 0 THEN <<>> ELSE front_const(w, h)

TopOfKey(w, h) ==
    [k \in Keys |-> IF count(w, h, k) = 0 THEN Null ELSE front_key_value(w, h, k)]

\* size(), count(k) for every k and the keys from cbegin() to cend()
Shape(w, h) ==
    [size |-> size(w, h), count |-> Counts(w, h), keys |-> cbegin_cend(w, h)]

\* Shape and the results of front() and front(k)
Obs(w, h) ==
    [size |-> size(w, h), count |-> Counts(w, h), keys |-> cbegin_cend(w, h),
     front |-> Top(w, h), front_key |-> TopOfKey(w, h)]

\* the outcomes of every call of a mutator on h in the world w
MutatorCalls(w, h) ==
    (IF size(w, h) < MaxSize
     THEN {push(w, h, k, v, f) : k \in Keys, v \in Values, f \in PushFails(w, h)}
     ELSE {})
    \cup {pop(w, h, f) : f \in GuardFails(w, h)}
    \cup {pop_key(w, h, k, f) : k \in Keys, f \in GuardFails(w, h)}
    \cup {clear(w, h, f) : f \in GuardFails(w, h)}
    \cup {front(w, h, v, f) : v \in Values \cup {NoWrite}, f \in GuardFails(w, h)}
    \cup {front_key(w, h, k, v, f) :
              k \in Keys, v \in Values \cup {NoWrite}, f \in GuardFails(w, h)}

\* ================================================================== claims

\* C1: copy-on-write isolation.  When a handle h performs push, pop, pop(k),
\* clear or a write through the reference of front()/front(k), and the call
\* succeeds, every other handle g observes the same size, counts, front(),
\* front(k) and keys as before the call.
C1_Isolation ==
    \A h \in Handles : \A g \in Handles \ {h} :
        (Usable(h) /\ Usable(g)) =>
            \A r \in MutatorCalls(World, h) :
                r.res = "ok" => Obs(r.w, g) = Obs(World, g)

\* the outcomes of the calls of non-const front() and front(k) on h
FrontCalls(w, h) ==
    {front(w, h, v, "none") : v \in Values \cup {NoWrite}}
    \cup {front_key(w, h, k, v, "none") : k \in Keys, v \in Values \cup {NoWrite}}

\* C2: stickiness.  After a successful non-const front() or front(k) on h, a
\* copy constructed from h does not share the stack_data of h: stated for the
\* copy made right after the call and for the copy made after one further
\* successful mutator call of h.
C2_Stickiness ==
    \A h \in Handles : \A g \in Handles \ {h} :
        (Usable(h) /\ ~alive[g]) =>
            \A r1 \in FrontCalls(World, h) :
                r1.res = "ok" =>
                    /\ stack_copy(r1.w, g, h).data_wrapper[g]
                           # stack_copy(r1.w, g, h).data_wrapper[h]
                    /\ \A r2 \in MutatorCalls(r1.w, h) :
                           r2.res = "ok" =>
                               stack_copy(r2.w, g, h).data_wrapper[g]
                                   # stack_copy(r2.w, g, h).data_wrapper[h]

\* C3: strong exception safety, observable part.  A mutator call that fails
\* (empty stack, no such key, injected std::bad_alloc at any step) leaves
\* size(), count(k) for every k and the keys from cbegin() to cend() of the
\* handle as they were.
C3_FailureKeepsShape ==
    \A h \in Handles :
        Usable(h) =>
            \A r \in MutatorCalls(World, h) :
                r.res # "ok" => Shape(r.w, h) = Shape(World, h)

\* ------------------------------------------------- the reference sequence
\* the number of pairs of the sequence q whose key is k
RefCount(q, k) == Cardinality({i \in 1..Len(q) : q[i][1] = k})

\* the position of the last pair of q whose key is k (0 when there is none)
RefLastPos(q, k) ==
    IF \E i \in 1..Len(q) : q[i][1] = k
    THEN CHOOSE i \in 1..Len(q) : q[i][1] = k /\ \A j \in (i + 1)..Len(q) : q[j][1] # k
    ELSE 0

\* q without its pair at position p
RefRemoveAt(q, p) == SubSeq(q, 1, p - 1) \o SubSeq(q, p + 1, Len(q))

\* the observers of h answer as the sequence q does
AnswersAs(w, h, q) ==
    /\ size(w, h) = Len(q)
    /\ \A k \in Keys : count(w, h, k) = RefCount(q, k)
    /\ Len(q) > 0 => front_const(w, h) = Last(q)
    /\ \A k \in Keys :
           RefCount(q, k) > 0 => front_key_value(w, h, k) = q[RefLastPos(q, k)][2]

\* C4: the stack refines a plain sequence of (key, value) pairs.  In every
\* reachable state the observers of a handle answer as its entry sequence
\* does, and from it a successful push(k, v) appends <<k, v>>, pop() removes
\* the last pair, pop(k) removes the last pair whose key is k and keeps the
\* order of the others, clear() empties the sequence; the observers of the
\* handle then answer as the new sequence does.
C4_RefinesSequence ==
    \A h \in Handles :
        Usable(h) =>
            LET q == EntrySeq(World, h)
                Becomes(r, q2) ==
                    r.res = "ok" /\ EntrySeq(r.w, h) = q2 /\ AnswersAs(r.w, h, q2)
            IN  /\ AnswersAs(World, h, q)
                /\ \A k \in Keys, v \in Values :
                       Len(q) < MaxSize =>
                           Becomes(push(World, h, k, v, "none"), Append(q, <<k, v>>))
                /\ Len(q) > 0 => Becomes(pop(World, h, "none"), PopBack(q))
                /\ \A k \in Keys :
                       RefCount(q, k) > 0 =>
                           Becomes(pop_key(World, h, k, "none"),
                                   RefRemoveAt(q, RefLastPos(q, k)))
                /\ Becomes(clear(World, h, "none"), <<>>)

\* C4 witness: a handle that shares its stack_data holds two entries of
\* different keys and values, so that pop(k) of the bottom key removes an entry
\* under the top and pop() another one, each on a copy the call has to make.
C4_Witness ==
    \E h \in Handles : \E g \in Handles \ {h} :
        /\ Usable(h) /\ Usable(g)
        /\ data_wrapper[h] = data_wrapper[g]
        /\ bIsShareable[h]
        /\ size(World, h) = 2
        /\ EntrySeq(World, h)[1][1] # EntrySeq(World, h)[2][1]
        /\ EntrySeq(World, h)[1][2] # EntrySeq(World, h)[2][2]
        /\ EntrySeq(pop_key(World, h, EntrySeq(World, h)[1][1], "none").w, h)
               = <<EntrySeq(World, h)[2]>>
        /\ EntrySeq(pop(World, h, "none").w, h) = <<EntrySeq(World, h)[1]>>

\* C5: the keys from cbegin() to cend() are exactly the keys k with
\* count(k) > 0, in ascending order, each once.
C5_KeysAreCountedKeys ==
    \A h \in Handles :
        Usable(h) =>
            cbegin_cend(World, h) = KeysInOrder({k \in Keys : count(World, h, k) > 0})

\* C6: a handle g copy-constructed from h observes what h observes: the same
\* entry sequence and the same size(), count(k), front(), front(k) and keys.
C6_CopyObservesTheSame ==
    \A h \in Handles : \A g \in Handles \ {h} :
        (Usable(h) /\ ~alive[g]) =>
            LET w == stack_copy(World, g, h)
            IN  EntrySeq(w, g) = EntrySeq(w, h) /\ Obs(w, g) = Obs(w, h)

\* C7: round trip.  A successful push(k, v) followed at once by pop() brings
\* size() and count(k) back to their values before the push, and front()
\* back to the pair it returned before the push when the stack was not empty.
C7_PushPopRoundTrip ==
    \A h \in Handles :
        (Usable(h) /\ size(World, h) < MaxSize) =>
            \A k \in Keys, v \in Values :
                LET pushed == push(World, h, k, v, "none")
                    popped == pop(pushed.w, h, "none")
                IN  /\ pushed.res = "ok"
                    /\ popped.res = "ok"
                    /\ size(popped.w, h) = size(World, h)
                    /\ count(popped.w, h, k) = count(World, h, k)
                    /\ size(World, h) > 0 =>
                           front_const(popped.w, h) = front_const(World, h)

\* C7 witness: a non-empty stack that shares its stack_data (the push makes
\* the copy) and holds an entry of another key and a value other than the
\* pushed one; the push then the pop have run and restored size and front().
C7_Witness ==
    \E h \in Handles : \E g \in Handles \ {h} : \E k \in Keys, v \in Values :
        /\ Usable(h) /\ Usable(g)
        /\ data_wrapper[h] = data_wrapper[g]
        /\ bIsShareable[h]
        /\ size(World, h) = 1
        /\ front_const(World, h)[1] # k
        /\ front_const(World, h)[2] # v
        /\ size(push(World, h, k, v, "none").w, h) = 2
        /\ front_const(push(World, h, k, v, "none").w, h) = <<k, v>>
        /\ size(pop(push(World, h, k, v, "none").w, h, "none").w, h) = 1

\* C8: error conditions.  Without an injected allocation failure, pop() and
\* both front() end with the empty-stack error exactly when size() = 0 and
\* succeed otherwise; pop(k) and both front(k) end with the no-such-key error
\* exactly when count(k) = 0 and succeed otherwise.
C8_ErrorConditions ==
    \A h \in Handles :
        Usable(h) =>
            LET whenEmpty == IF size(World, h) = 0 THEN "empty" ELSE "ok"
                whenNoKey(k) == IF count(World, h, k) = 0 THEN "no_key" ELSE "ok"
            IN  /\ pop(World, h, "none").res = whenEmpty
                /\ \A v \in Values \cup {NoWrite} :
                       front(World, h, v, "none").res = whenEmpty
                /\ front_const_res(World, h) = whenEmpty
                /\ \A k \in Keys :
                       /\ pop_key(World, h, k, "none").res = whenNoKey(k)
                       /\ \A v \in Values \cup {NoWrite} :
                              front_key(World, h, k, v, "none").res = whenNoKey(k)
                       /\ front_key_const(World, h, k).res = whenNoKey(k)

\* C8 witness: a stack with an entry of one key and none of another key, whose
\* bucket an earlier failed call left behind empty: pop(k) and front(k) succeed
\* for the first key and end with no-such-key for the other; and next to it an
\* empty stack, on which pop() ends with the empty-stack error.
C8_Witness ==
    \E h \in Handles : \E g \in Handles \ {h} : \E k1 \in Keys : \E k2 \in Keys \ {k1} :
        /\ Usable(h) /\ Usable(g)
        /\ count(World, h, k1) = 1
        /\ k2 \in DOMAIN Rep(World, h).elements_by_key
        /\ count(World, h, k2) = 0
        /\ pop_key(World, h, k1, "none").res = "ok"
        /\ pop_key(World, h, k2, "none").res = "no_key"
        /\ front_key(World, h, k2, NoWrite, "none").res = "no_key"
        /\ size(World, g) = 0
        /\ pop(World, g, "none").res = "empty"
        /\ front(World, g, NoWrite, "none").res = "empty"

\* C9: copy construction.  The new handle g is shareable whatever the flag of
\* the source h is; it points to the stack_data of h exactly when h is
\* shareable, and otherwise to a new stack_data, a copy of the one of h, that
\* no other handle points to; the pointer and the flag of h are unchanged.
C9_CopyConstruction ==
    \A h \in Handles : \A g \in Handles \ {h} :
        (Usable(h) /\ ~alive[g]) =>
            LET w == stack_copy(World, g, h)
            IN  /\ w.bIsShareable[g] = TRUE
                /\ (w.data_wrapper[g] = data_wrapper[h]) <=> bIsShareable[h]
                /\ ~bIsShareable[h] =>
                       /\ w.data_wrapper[g] \notin DOMAIN heap
                       /\ w.data_wrapper[g] \in DOMAIN w.heap
                       /\ \A x \in Handles \ {g} : w.data_wrapper[x] # w.data_wrapper[g]
                       /\ EntrySeq(w, g) = EntrySeq(World, h)
                /\ w.data_wrapper[h] = data_wrapper[h]
                /\ w.bIsShareable[h] = bIsShareable[h]
                /\ \A r \in DOMAIN heap : w.heap[r] = heap[r]

\* C9 witness: both cases of the copy are at hand.  A stack whose flag is
\* false holds two entries, and the copy constructed from it is shareable and
\* points to a new stack_data.
C9_Witness ==
    \E h \in Handles : \E g \in Handles \ {h} :
        /\ Usable(h) /\ ~alive[g]
        /\ ~bIsShareable[h]
        /\ size(World, h) = 2
        /\ stack_copy(World, g, h).bIsShareable[g]
        /\ stack_copy(World, g, h).data_wrapper[g] # data_wrapper[h]

\* C10: assignment.  After h = s the flag of h is true, and h points to the
\* stack_data of s when s is shareable and to a copy of it otherwise.
C10_Assignment ==
    \A h \in Handles : \A src \in Handles :
        (alive[h] /\ Usable(src)) =>
            LET w == operator_assign(World, h, src)
            IN  /\ w.bIsShareable[h] = TRUE
                /\ bIsShareable[src] => w.data_wrapper[h] = w.data_wrapper[src]
                /\ ~bIsShareable[src] /\ src # h =>
                       /\ w.data_wrapper[h] # w.data_wrapper[src]
                       /\ EntrySeq(w, h) = EntrySeq(w, src)

\* C11: move construction.  The handle constructed by moving from another
\* handle points to the stack_data the source pointed to, and its flag is the
\* flag the source had before the move.
C11_MoveConstruction ==
    \A h \in Handles : \A g \in Handles \ {h} :
        (Usable(h) /\ ~alive[g]) =>
            LET w == stack_move(World, g, h)
            IN  /\ w.data_wrapper[g] = data_wrapper[h]
                /\ w.bIsShareable[g] = bIsShareable[h]

\* C12: a push that fails leaves the representation as it was.  Whatever the
\* step that fails (the modify_guard, its clone, either bucket insertion or
\* any of the three appends), the stack_data of the handle, and of every other
\* handle, has the same elements_by_key, elements and key_to_list_map as
\* before the call: a bucket the push inserted is erased, a bucket that was
\* there is kept with its contents.
C12_PushFailureAtomicity ==
    \A h \in Handles :
        Usable(h) =>
            \A k \in Keys : \A v \in Values : \A f \in PushFails(World, h) \ {"none"} :
                LET r == push(World, h, k, v, f)
                IN  /\ r.res = "bad_alloc"
                    /\ \A g \in Handles :
                           Usable(g) => Rep(r.w, g) = Rep(World, g)

\* C12 witness: a stack with a bucket for one key and none for the other; a
\* push fails at its last step for either key, after a bucket insertion in the
\* one case and none in the other, and the representation is as before.
C12_Witness ==
    \E h \in Handles : \E k1 \in Keys : \E k2 \in Keys :
        /\ Usable(h)
        /\ k1 \in DOMAIN Rep(World, h).elements_by_key
        /\ k1 \in DOMAIN Rep(World, h).key_to_list_map
        /\ k2 \notin DOMAIN Rep(World, h).elements_by_key
        /\ "pb3" \in PushFails(World, h)
        /\ push(World, h, k1, 1, "pb3").res = "bad_alloc"
        /\ push(World, h, k2, 1, "map2").res = "bad_alloc"
        /\ Rep(push(World, h, k1, 1, "pb3").w, h) = Rep(World, h)
        /\ Rep(push(World, h, k2, 1, "map2").w, h) = Rep(World, h)

\* C13: the handle after a failed call.  When push, pop, pop(key), clear,
\* front() or front(key) fails, in the clone of the modify_guard or at any
\* later step, the handle points to the stack_data it pointed to before the
\* call, that stack_data is still there, and the flag has the value it had
\* before the call.
C13_HandleStateOnFailure ==
    \A h \in Handles :
        Usable(h) =>
            \A r \in MutatorCalls(World, h) :
                r.res # "ok" =>
                    /\ r.w.data_wrapper[h] = data_wrapper[h]
                    /\ r.w.data_wrapper[h] \in DOMAIN r.w.heap
                    /\ r.w.bIsShareable[h] = bIsShareable[h]
                    /\ r.w.data_wrapper = data_wrapper

\* C13 witness: a handle that shares its stack_data and is shareable, so the
\* modify_guard clones; the push then fails at its last step, after the handle
\* was retargeted to the clone, and the handle is back on the shared
\* stack_data.
C13_Witness ==
    \E h \in Handles :
        /\ Usable(h)
        /\ NeedsClone(World, h)
        /\ size(World, h) = 1
        /\ modify_guard(World, h, TRUE).data_wrapper[h] # data_wrapper[h]
        /\ push(World, h, 1, 1, "pb3").res = "bad_alloc"
        /\ push(World, h, 1, 1, "pb3").w.data_wrapper[h] = data_wrapper[h]
        /\ pop(World, h, "clone").res = "bad_alloc"

\* C14: the preparation step of a mutation.  The modify_guard retargets the
\* handle to a new stack_data holding the same entries exactly when another
\* handle points to the handle's stack_data and the handle's flag is true; a
\* sole owner, and a handle whose flag is false, keeps its stack_data.  When
\* it clones, every other handle keeps pointing to the old stack_data, and a
\* call that then succeeds leaves the contents of the old stack_data as they
\* were.
C14_PreparationStep ==
    \A h \in Handles :
        Usable(h) =>
            LET shared == \E g \in Handles \ {h} : data_wrapper[g] = data_wrapper[h]
                cloning == shared /\ bIsShareable[h]
            IN  /\ \A b \in BOOLEAN :
                       LET w1 == modify_guard(World, h, b)
                       IN  /\ (w1.data_wrapper[h] # data_wrapper[h]) <=> cloning
                           /\ cloning =>
                                  /\ w1.data_wrapper[h] \notin DOMAIN heap
                                  /\ EntrySeq(w1, h) = EntrySeq(World, h)
                                  /\ \A k \in Keys : count(w1, h, k) = count(World, h, k)
                           /\ \A g \in Handles \ {h} : w1.data_wrapper[g] = data_wrapper[g]
                           /\ \A r \in DOMAIN heap : w1.heap[r] = heap[r]
                /\ \A r \in MutatorCalls(World, h) :
                       r.res = "ok" =>
                           /\ (r.w.data_wrapper[h] # data_wrapper[h]) <=> cloning
                           /\ \A g \in Handles \ {h} : r.w.data_wrapper[g] = data_wrapper[g]
                           /\ cloning => r.w.heap[data_wrapper[h]] = heap[data_wrapper[h]]

\* C14 witness: two handles on one non-empty stack_data, the caller
\* shareable; its pop succeeds on a clone, the other handle still sees the
\* entry.
C14_Witness ==
    \E h \in Handles : \E g \in Handles \ {h} :
        /\ Usable(h) /\ Usable(g)
        /\ data_wrapper[g] = data_wrapper[h]
        /\ bIsShareable[h]
        /\ size(World, h) = 2
        /\ pop(World, h, "none").res = "ok"
        /\ pop(World, h, "none").w.data_wrapper[h] # data_wrapper[h]
        /\ size(pop(World, h, "none").w, g) = 2
        /\ size(pop(World, h, "none").w, h) = 1

\* C15: push, pop, pop(key) and clear keep the flag.  After one of them has
\* returned normally the flag of the handle is what it was before the call,
\* true or false.
C15_MutatorsKeepFlag ==
    \A h \in Handles :
        Usable(h) =>
            \A r \in {push(World, h, k, v, "none") : k \in Keys, v \in Values}
                     \cup {pop(World, h, "none"), clear(World, h, "none")}
                     \cup {pop_key(World, h, k, "none") : k \in Keys} :
                r.res = "ok" => r.w.bIsShareable[h] = bIsShareable[h]

\* C16: observers do not mutate.  A call of the const front(key), whether it
\* returns a value or fails because the key is absent, leaves the three
\* indices of the representation, the handle's pointer and the handle's flag
\* as they were (size, count, the const front() and cbegin/cend write nothing
\* at all).
C16_ObserversDoNotMutate ==
    \A h \in Handles :
        Usable(h) =>
            \A k \in Keys :
                LET r == front_key_const(World, h, k)
                IN  /\ Rep(r.w, h) = Rep(World, h)
                    /\ r.w.data_wrapper[h] = data_wrapper[h]
                    /\ r.w.bIsShareable[h] = bIsShareable[h]

\* the length of the bucket of key in the map m; 0 when m has no such bucket
BucketLen(m, key) == IF key \in DOMAIN m THEN Len(m[key]) ELSE 0

\* the slots (key, index) of the buckets of the map m
Slots(m) == UNION {{<<k, i>> : i \in 1..Len(m[k])} : k \in DOMAIN m}

\* the three indices of one stack_data agree
CrossIndexConsistent(rep) ==
    /\ Len(rep.elements) = Cardinality(Slots(rep.elements_by_key))
    /\ \A k \in Keys :
           BucketLen(rep.key_to_list_map, k) = BucketLen(rep.elements_by_key, k)
    /\ \A s \in Slots(rep.key_to_list_map) :
           \E p \in 1..Len(rep.elements) :
               /\ rep.elements[p].id = rep.key_to_list_map[s[1]][s[2]]
               /\ rep.elements[p].first = s[1]
               /\ rep.elements[p].second = rep.elements_by_key[s[1]][s[2]].id
    /\ \A p \in 1..Len(rep.elements) :
           /\ rep.elements[p].first \in DOMAIN rep.elements_by_key
           /\ rep.elements[p].second \in
                  NodeIds(rep.elements_by_key[rep.elements[p].first])
           /\ \A q \in 1..Len(rep.elements) :
                  rep.elements[p].id = rep.elements[q].id => p = q
    /\ \A k \in DOMAIN rep.elements_by_key :
           \A i, j \in 1..Len(rep.elements_by_key[k]) :
               rep.elements_by_key[k][i].id = rep.elements_by_key[k][j].id => i = j

\* C17: the three indices agree.  In every stack_data, elements has as many
\* entries as the buckets of elements_by_key hold values; for every key the
\* bucket of key_to_list_map is as long as the bucket of elements_by_key; the
\* i-th position of a key in key_to_list_map is the entry of elements that
\* carries this key and the i-th value of the key's bucket; and every key,
\* value and position that is stored designates something that exists.  This
\* holds of every stack_data of a reachable state and of the stack_data a
\* call leaves when it returns normally.
C17_CrossIndexConsistency ==
    /\ \A r \in DOMAIN heap : CrossIndexConsistent(heap[r])
    /\ \A h \in Handles :
           Usable(h) =>
               \A r \in MutatorCalls(World, h) :
                   r.res = "ok" => CrossIndexConsistent(Rep(r.w, h))

\* C17 witness: a stack with two entries under one key, from which pop(key)
\* and pop() succeed and leave one entry and consistent indices.
C17_Witness ==
    \E h \in Handles : \E k \in Keys :
        /\ Usable(h)
        /\ size(World, h) = 2
        /\ count(World, h, k) = 2
        /\ Len(Rep(World, h).key_to_list_map[k]) = 2
        /\ pop_key(World, h, k, "none").res = "ok"
        /\ pop(World, h, "none").res = "ok"
        /\ CrossIndexConsistent(Rep(pop_key(World, h, k, "none").w, h))
        /\ CrossIndexConsistent(Rep(pop(World, h, "none").w, h))
        /\ size(pop_key(World, h, k, "none").w, h) = 1

\* C18: no empty bucket.  In every reachable state, whether the calls before
\* it succeeded or failed, every bucket of elements_by_key and every bucket of
\* key_to_list_map of every stack_data holds at least one item.
C18_NoEmptyBucket ==
    \A r \in DOMAIN heap :
        /\ \A k \in DOMAIN heap[r].elements_by_key : heap[r].elements_by_key[k] # <<>>
        /\ \A k \in DOMAIN heap[r].key_to_list_map : heap[r].key_to_list_map[k] # <<>>

\* C19: a handle whose flag is false is the only handle that points to its
\* stack_data.
C19_UnshareableIsSoleOwner ==
    \A h \in Handles :
        (Usable(h) /\ ~bIsShareable[h]) =>
            \A g \in Handles \ {h} : data_wrapper[g] # data_wrapper[h]

====
